---- MODULE Spec2Model ----
(***************************************************************************)
(* Model of the ScriptScreen backend: the /preview and /export endpoints   *)
(* (backend/main.py) and render_project (backend/renderer.py), which       *)
(* compiles a Project (backend/models.py) into an ffmpeg filter graph and  *)
(* runs the engine once.                                                   *)
(*                                                                         *)
(* Times are integers counting ticks of 1/128 s.  Every such time is an    *)
(* exact binary float, so the sums, differences and comparisons the code   *)
(* does on floats are exact on ticks; the 0.01 s gap threshold lies        *)
(* between one tick and two.  Speeds and volumes are whole numbers.        *)
(***************************************************************************)
EXTENDS Integers, Sequences, FiniteSets, TLC

TicksPerSecond == 2 ^ 7

\* Bounds of the explored inputs.
MaxTime == 4
MaxClips == 2
MaxAudioClips == 2

Max(a, b) == IF a >= b THEN a ELSE b
Min(a, b) == IF a <= b THEN a ELSE b

RECURSIVE SumDur(_)
SumDur(parts) ==
    IF parts = <<>> THEN 0 ELSE Head(parts).dur + SumDur(Tail(parts))

RECURSIVE Flatten(_)
Flatten(seqs) ==
    IF seqs = <<>> THEN <<>> ELSE Head(seqs) \o Flatten(Tail(seqs))

(***************************************************************************)
(* The environment: which source files exist and which carry audio.        *)
(***************************************************************************)
OkPath == "ok.mp4"
SilentPath == "silent.mp4"
MissingPath == "missing.mp4"

\* os.path.exists(clip.source_path)
FileExists(path) == path # MissingPath

\* has_audio_stream: ffprobe fails on a missing file, finds no audio stream
\* in a silent one.
has_audio_stream(path) == path = OkPath

(***************************************************************************)
(* models.py                                                               *)
(***************************************************************************)
Clip(id, path, s, e, ss, sp, vol) ==
    [id |-> id, source_path |-> path, start_time |-> s, end_time |-> e,
     source_start |-> ss, speed |-> sp, volume |-> vol]

Track(type, clips) == [type |-> type, clips |-> clips]

ShapeOverlay(type, s, e, x1, y1, x2, y2, width) ==
    [type |-> type, start_time |-> s, end_time |-> e,
     x1 |-> x1, y1 |-> y1, x2 |-> x2, y2 |-> y2, width |-> width]

Project(tracks, shapes) == [tracks |-> tracks, shape_overlays |-> shapes]

(***************************************************************************)
(* render_project, step 1: track selection.                                *)
(***************************************************************************)
RECURSIVE FirstVideoTrack(_)
\* next((t for t in project.tracks if t.type == "video"), None); a track
\* with no clips stands for None, the code treats both alike (line 45).
FirstVideoTrack(tracks) ==
    IF tracks = <<>> THEN Track("video", <<>>)
    ELSE IF Head(tracks).type = "video" THEN Head(tracks)
    ELSE FirstVideoTrack(Tail(tracks))

IsAudioTrack(t) == t.type \in {"audio", "av"}

AudioTracks(tracks) == SelectSeq(tracks, IsAudioTrack)

TrackClips(t) == t.clips

\* The clips of the audio-bearing tracks, in the order the loops visit them.
AudioClips(tracks) ==
    Flatten([i \in 1..Len(AudioTracks(tracks)) |->
                TrackClips(AudioTracks(tracks)[i])])

(***************************************************************************)
(* render_project, step 2: the video track.                                *)
(***************************************************************************)
RECURSIVE InsertByStart(_, _)
InsertByStart(sorted, c) ==
    IF sorted = <<>> THEN <<c>>
    ELSE IF Head(sorted).start_time <= c.start_time
         THEN <<Head(sorted)>> \o InsertByStart(Tail(sorted), c)
         ELSE <<c>> \o sorted

RECURSIVE SortedClips(_)
\* sorted(video_track.clips, key=lambda c: c.start_time): stable.
SortedClips(clips) ==
    IF clips = <<>> THEN <<>>
    ELSE InsertByStart(SortedClips(SubSeq(clips, 1, Len(clips) - 1)),
                       clips[Len(clips)])

\* A variant for mutation analysis: any positive gap is filled.
GapExceedsZero(gap) == gap > 0

\* gap_duration > 0.01, with gap in ticks.
GapExceedsThreshold(gap) == gap * 100 > TicksPerSecond

\* A variant for mutation analysis: the speed is left out of the trim.
SourceDurationUnscaled(c) == c.end_time - c.start_time

\* duration * speed
SourceDuration(c) == (c.end_time - c.start_time) * c.speed

\* trim start=clip.source_start
TrimStart(c) == c.source_start

\* setpts (PTS-STARTPTS)/speed: the trimmed range played at `speed`.
Retimed(source_duration, speed) == source_duration \div speed

BlackFiller(d) ==
    [kind |-> "filler", clip |-> 0, dur |-> d,
     trim_start |-> 0, trim_dur |-> 0, speed |-> 1]

ClipVideoSegment(c) ==
    [kind |-> "clip", clip |-> c.id,
     dur |-> Retimed(SourceDuration(c), c.speed),
     trim_start |-> TrimStart(c), trim_dur |-> SourceDuration(c),
     speed |-> c.speed]

\* One iteration of the loop over sorted_clips (lines 49-96).
VideoStep(st, clip) ==
    LET maxd == Max(st.max_duration, clip.end_time)
        gap_duration == clip.start_time - st.current_time
        parts == IF clip.start_time > st.current_time
                    /\ GapExceedsThreshold(gap_duration)
                 THEN Append(st.parts, BlackFiller(gap_duration))
                 ELSE st.parts
    IN  IF ~FileExists(clip.source_path)
        THEN [parts |-> parts, current_time |-> st.current_time,
              max_duration |-> maxd]
        ELSE [parts |-> Append(parts, ClipVideoSegment(clip)),
              current_time |-> clip.end_time, max_duration |-> maxd]

RECURSIVE VideoLoop(_, _)
VideoLoop(st, clips) ==
    IF clips = <<>> THEN st
    ELSE VideoLoop(VideoStep(st, Head(clips)), Tail(clips))

\* The branch of line 45 is taken and the loop runs.
EntersVideoBranch(video_track) == video_track.clips # <<>>

\* A variant for mutation analysis: the cursor is never initialised.
CursorNeverInitialised(video_track) == FALSE

\* current_time = 0.0 (line 47) is executed: it sits in the same branch.
CursorInitialised(video_track) == video_track.clips # <<>>

RECURSIVE MaxEnd(_, _)
\* Lines 100-102: max_duration over the audio-bearing tracks' clips.
MaxEnd(maxd, clips) ==
    IF clips = <<>> THEN maxd
    ELSE MaxEnd(Max(maxd, Head(clips).end_time), Tail(clips))

(***************************************************************************)
(* render_project, step 3: the main video stream (lines 104-131).          *)
(***************************************************************************)
\* Lines 110-119: pad the video chain up to max_duration.
PaddedParts(parts, cursor, maxd) ==
    IF maxd > cursor /\ GapExceedsThreshold(maxd - cursor)
    THEN Append(parts, BlackFiller(maxd - cursor))
    ELSE parts

NoStream == [kind |-> "none", dur |-> 0]

\* ffmpeg.concat(*video_concat_parts, v=1, a=0)
ConcatStream(parts) == [kind |-> "concat", dur |-> SumDur(parts)]

\* ffmpeg.input('color=c=black:s=1920x1080:d={max_duration}').video
BlackStream(maxd) == [kind |-> "black", dur |-> maxd]

(***************************************************************************)
(* render_project, step 4: the audio-bearing tracks (lines 133-171).       *)
(***************************************************************************)
\* int(clip.start_time * 1000): whole milliseconds, truncated.
DelayMs(c) == (c.start_time * 1000) \div TicksPerSecond

\* atempo is applied only when speed != 1.0; it plays the trimmed range
\* `speed` times faster.
Tempo(source_duration, speed) ==
    IF speed # 1 THEN source_duration \div speed ELSE source_duration

AudioSegment(c) ==
    [clip |-> c.id,
     trim_start |-> TrimStart(c), trim_dur |-> SourceDuration(c),
     atempo |-> IF c.speed # 1 THEN c.speed ELSE 0,
     volume |-> IF c.volume # 1 THEN c.volume ELSE 0,
     dur |-> Tempo(SourceDuration(c), c.speed),
     delay_ms |-> DelayMs(c),
     adelay |-> DelayMs(c) > 0]

\* A variant for mutation analysis: the stream probe is left out.
AudioClipMissing(c) == ~FileExists(c.source_path)

\* Lines 138-144: the clips that are skipped.
AudioClipSkipped(c) ==
    ~FileExists(c.source_path) \/ ~has_audio_stream(c.source_path)

AudioClipKept(c) == ~AudioClipSkipped(c)

AudioOverlays(tracks) ==
    LET kept == SelectSeq(AudioClips(tracks), AudioClipKept)
    IN  [i \in 1..Len(kept) |-> AudioSegment(kept[i])]

(***************************************************************************)
(* render_project, step 7: the mix (lines 279-284).  Lengths are in units  *)
(* of 1/16 ms, in which a tick is 125 and a millisecond 16.                *)
(***************************************************************************)
UnitsPerTick == 16000 \div TicksPerSecond
UnitsPerMs == 2 ^ 4

\* The length of a processed segment: its delay, then its content.
SegmentLength(a) == a.delay_ms * UnitsPerMs + a.dur * UnitsPerTick

RECURSIVE LongestLength(_)
LongestLength(overlays) ==
    IF overlays = <<>> THEN 0
    ELSE Max(SegmentLength(Head(overlays)), LongestLength(Tail(overlays)))

RECURSIVE ShortestLength(_)
\* A variant for mutation analysis: amix duration='shortest'.
ShortestLength(overlays) ==
    IF Len(overlays) = 1 THEN SegmentLength(Head(overlays))
    ELSE Min(SegmentLength(Head(overlays)), ShortestLength(Tail(overlays)))

\* amix duration='longest'
MixLength(overlays) == LongestLength(overlays)

\* The branch of line 281: more than one processed segment is mixed.
NeedsMix(overlays) == Len(overlays) > 1

FinalAudio(overlays) ==
    IF NeedsMix(overlays)
    THEN [kind |-> "amix", inputs |-> Len(overlays),
          first |-> 0, length |-> MixLength(overlays)]
    ELSE IF Len(overlays) = 1
    THEN [kind |-> "single", inputs |-> 1,
          first |-> overlays[1].clip, length |-> SegmentLength(overlays[1])]
    ELSE [kind |-> "none", inputs |-> 0, first |-> 0, length |-> 0]

(***************************************************************************)
(* render_project, step 6: shape overlays (lines 207-277).  Endpoints are  *)
(* whole percentages.  The code computes in IEEE double precision; the     *)
(* definitions below give its results in integer arithmetic, following     *)
(* each rounding of a product, quotient or sum where it decides on which   *)
(* side of a whole number the value handed to int() falls.                 *)
(***************************************************************************)
CanvasWidth == 1920
CanvasHeight == 1080
MinSegments == 10
ArrowSegments == 8
ArrowScale == 5

Abs(a) == IF a >= 0 THEN a ELSE 0 - a

\* int(): truncation toward zero, for a positive divisor.
TruncDiv(a, b) == IF a >= 0 THEN a \div b ELSE 0 - ((0 - a) \div b)

RECURSIVE IsqrtIn(_, _, _)
\* The largest r in lo..hi with r * r <= n.
IsqrtIn(n, lo, hi) ==
    IF lo >= hi THEN lo
    ELSE LET mid == (lo + hi + 1) \div 2
         IN  IF mid * mid <= n THEN IsqrtIn(n, mid, hi)
             ELSE IsqrtIn(n, lo, mid - 1)

Isqrt(n) == IsqrtIn(n, 0, Min(n, 46340))

RECURSIVE FloorPow2In(_, _)
FloorPow2In(v, p) == IF 2 * p > v THEN p ELSE FloorPow2In(v, 2 * p)

\* The power of two at the bottom of the binade of v >= 1.
FloorPow2(v) == FloorPow2In(v, 1)

IsPow2(v) == FloorPow2(v) = v

RECURSIVE Log2(_)
Log2(p) == IF p <= 1 THEN 0 ELSE 1 + Log2(p \div 2)

RECURSIVE PowMod(_, _, _)
\* b ^ e modulo m
PowMod(b, e, m) == IF e = 0 THEN 1 % m ELSE (b * PowMod(b, e - 1, m)) % m

\* int(1920 * x_pct / 100)
XPixel(x_pct) == (CanvasWidth * x_pct) \div 100

\* int(1080 - 1080 * y_pct / 100)
YPixel(y_pct) == (CanvasHeight * 100 - CanvasHeight * y_pct) \div 100

SquaredLength(dx, dy) == dx * dx + dy * dy

RECURSIVE ProductBinadeIn(_, _)
ProductBinadeIn(width, p) ==
    IF 4 * width < 5 * p THEN p ELSE ProductBinadeIn(width, 2 * p)

\* The power of two just above width * 0.8.
ProductBinade(width) == ProductBinadeIn(width, 1)

\* width * 0.8 as the double the code gets, minus 4 * width / 5, in fifths
\* of the product's last binary place: the literal 0.8 is the double
\* 0.8 + 0.4 * 2^-53 and the product is rounded to 53 bits, ties to even
\* (3 * 0.8 = 2.4000000000000004 is 4 fifths above 2.4).
ProductExcess(width) ==
    LET top == ProductBinade(width)
        k == 53 - Log2(top)
        f == (((4 * width) % 5) * PowMod(2, k, 5)) % 5
        lhs == 2 * f * top + 4 * width
        rhs == 5 * top
        b == IF lhs > rhs THEN 1 ELSE IF lhs < rhs THEN 0 ELSE f % 2
    IN  5 * b - f

\* int(line_length / (width * 0.8)), line_length = sqrt(s2).  A quotient
\* that is a whole number n in exact arithmetic comes out below n when the
\* product exceeds 4 * width / 5 by more than half the spacing of the
\* doubles below n allows.
SegmentQuotient(s2, width) ==
    LET n == Isqrt((25 * s2) \div (16 * width * width))
        d == ProductExcess(width)
    IN  IF n > 0 /\ 16 * width * width * n * n = 25 * s2 /\ d > 0
           /\ 4 * width * FloorPow2(n)
                < n * d * ProductBinade(width) * (IF IsPow2(n) THEN 2 ELSE 1)
        THEN n - 1 ELSE n

\* num_segments (line 251)
NumSegments(s2, width) == Max(MinSegments, SegmentQuotient(s2, width))

RECURSIVE FractionBinadeIn(_, _, _)
FractionBinadeIn(i, n, p) ==
    IF i * p >= n THEN p ELSE FractionBinadeIn(i, n, 2 * p)

\* t = i / num_segments as a double, minus i / num_segments, for 0 < i < n:
\* the numerator rho of the error rho / (n * 2^(52 + a)), where
\* 2^-a <= i / n < 2^(1 - a); the quotient is rounded to 53 bits, ties to
\* even.
FractionError(i, n) ==
    LET a == Log2(FractionBinadeIn(i, n, 1))
        r2 == (i * PowMod(2, 52 + a, 2 * n)) % (2 * n)
        r == r2 % n
    IN  IF r = 0 THEN 0
        ELSE IF 2 * r < n THEN 0 - r
        ELSE IF 2 * r > n THEN n - r
        ELSE IF r2 >= n THEN n - r ELSE 0 - r

\* The sign of l - r * 2^sh, for sh >= 0 and l < 2^30.
CompareScaled(l, r, sh) ==
    LET p == 2 ^ Min(sh, 30)
        q == l \div p
    IN  IF q > r THEN 1 ELSE IF q < r THEN -1
        ELSE IF l % p > 0 THEN 1 ELSE 0

\* int(x1 + t * (x2 - x1)), t = i / n (lines 212-214).  Where the exact
\* value is not a whole number the double is on the same side of the whole
\* numbers around it.  Where it is a whole number v = x1 + m, the error of
\* t is carried through the product t * (x2 - x1), rounded near m, and
\* through the sum, rounded near v: half is the product's distance from m
\* in half-spacings of the doubles at m (0, 1 or 2), and the sum differs
\* from v when that distance exceeds half the spacing of the doubles at v.
Interpolate(x1, x2, i, n) ==
    LET D == x2 - x1
    IN  IF (i * D) % n # 0 THEN TruncDiv(x1 * n + i * D, n)
        ELSE
        LET m == (i * D) \div n
            v == x1 + m
            rho == IF i = 0 \/ i = n THEN 0 ELSE FractionError(i, n)
        IN  IF m = 0 \/ rho = 0 \/ v = 0 THEN v
            ELSE
            LET up == (D > 0) = (rho > 0)
                err == Abs(D) * Abs(rho)
                pm == FloorPow2(Abs(m))
                pv == FloorPow2(Abs(v))
                sh == Log2(FractionBinadeIn(i, n, 1)) + Log2(pm)
                inward_m == up # (m > 0)
                inward_v == up # (v > 0)
                half ==
                    IF inward_m /\ IsPow2(Abs(m))
                    THEN IF CompareScaled(err * 4, n, sh) <= 0 THEN 0
                         ELSE IF CompareScaled(err * 4, 3 * n, sh) < 0 THEN 1
                         ELSE 2
                    ELSE IF CompareScaled(err * 2, n, sh) <= 0 THEN 0 ELSE 2
                moved ==
                    IF inward_v /\ IsPow2(Abs(v))
                    THEN half * pm * 2 > pv
                    ELSE half * pm > pv
            IN  IF ~moved THEN v
                ELSE IF v > 0 THEN (IF up THEN v ELSE v - 1)
                ELSE (IF up THEN v + 1 ELSE v)

\* One drawbox of draw_line_with_boxes: sample i of num_segments.
DrawBox(x1, y1, x2, y2, thickness, n, i, es, ee, shape, part) ==
    LET x == Interpolate(x1, x2, i, n)
        y == Interpolate(y1, y2, i, n)
        half_t == thickness \div 2
    IN  [shape |-> shape, part |-> part, i |-> i,
         x |-> Max(0, x - half_t), y |-> Max(0, y - half_t),
         w |-> thickness, h |-> thickness,
         enable_start |-> es, enable_end |-> ee]

\* draw_line_with_boxes: for i in range(num_segments + 1)
draw_line_with_boxes(x1, y1, x2, y2, thickness, n, es, ee, shape, part) ==
    [k \in 1..(n + 1) |->
        DrawBox(x1, y1, x2, y2, thickness, n, k - 1, es, ee, shape, part)]

(***************************************************************************)
(* The arrowhead (lines 256-277).  With angle = atan2(dy, dx),             *)
(*   cos(angle +- 0.8 pi) = (dx cos 0.8pi -+ dy sin 0.8pi) / sqrt(dx^2+dy^2) *)
(*   sin(angle +- 0.8 pi) = (dy cos 0.8pi +- dx sin 0.8pi) / sqrt(dx^2+dy^2) *)
(* which is never a whole number of pixels, so int() is settled by         *)
(* comparing squares.  Sixteen decimal digits of cos and sin are carried   *)
(* in natural numbers written as sequences of digits in base 10^4, least   *)
(* significant first.                                                      *)
(***************************************************************************)
Base == 10 ^ 4

\* The number of base-10^4 digits in 10^16, squared.
ScaleDigits == 8

\* math.cos(math.pi * 0.8) = -0.8090169943749473 and
\* math.sin(math.pi * 0.8) = 0.5877852522924732, in units of 10^-16:
\* 8090 1699 4374 9473 and 5877 8525 2292 4732.
NegCos144 == <<9473, 4374, 1699, 8090>>
Sin144 == <<4732, 2292, 8525, 5877>>

Limb(a, i) == IF i <= Len(a) THEN a[i] ELSE 0

RECURSIVE BigNorm(_, _)
\* Carry propagation over digits that may exceed the base.
BigNorm(s, carry) ==
    IF s = <<>>
    THEN IF carry = 0 THEN <<>>
         ELSE <<carry % Base>> \o BigNorm(<<>>, carry \div Base)
    ELSE LET d == Head(s) + carry
         IN  <<d % Base>> \o BigNorm(Tail(s), d \div Base)

BigFromNat(n) == BigNorm(<<>>, n)

BigMulSmall(a, m) == BigNorm([i \in 1..Len(a) |-> a[i] * m], 0)

BigAdd(a, b) ==
    BigNorm([i \in 1..Max(Len(a), Len(b)) |-> Limb(a, i) + Limb(b, i)], 0)

RECURSIVE BigSubAt(_, _, _, _)
BigSubAt(a, b, i, borrow) ==
    IF i > Len(a) THEN <<>>
    ELSE LET d == a[i] - Limb(b, i) - borrow
         IN  IF d < 0 THEN <<d + Base>> \o BigSubAt(a, b, i + 1, 1)
             ELSE <<d>> \o BigSubAt(a, b, i + 1, 0)

\* a - b, for a >= b
BigSub(a, b) == BigSubAt(a, b, 1, 0)

RECURSIVE BigCmpAt(_, _, _)
BigCmpAt(a, b, i) ==
    IF i = 0 THEN 0
    ELSE IF Limb(a, i) > Limb(b, i) THEN 1
    ELSE IF Limb(a, i) < Limb(b, i) THEN -1
    ELSE BigCmpAt(a, b, i - 1)

\* The sign of a - b
BigCmp(a, b) == BigCmpAt(a, b, Max(Len(a), Len(b)))

BigShift(a, n) == [i \in 1..n |-> 0] \o a

RECURSIVE BigMulAt(_, _, _)
BigMulAt(a, b, i) ==
    IF i > Len(b) THEN <<>>
    ELSE BigAdd(BigShift(BigMulSmall(a, b[i]), i - 1), BigMulAt(a, b, i + 1))

BigMul(a, b) == BigMulAt(a, b, 1)

\* p * cos(0.8 pi) + q * sin(0.8 pi) in units of 10^-16, as sign and
\* magnitude.
Rotated(p, q) ==
    LET cpart == BigMulSmall(NegCos144, Abs(p))
        spart == BigMulSmall(Sin144, Abs(q))
        cneg == p > 0
        sneg == q < 0
        c == BigCmp(cpart, spart)
    IN  IF cneg = sneg THEN [neg |-> cneg, mag |-> BigAdd(cpart, spart)]
        ELSE IF c >= 0 THEN [neg |-> cneg, mag |-> BigSub(cpart, spart)]
        ELSE [neg |-> sneg, mag |-> BigSub(spart, cpart)]

RECURSIVE LargestBelow(_, _, _, _)
\* The largest g in lo..hi with g^2 * k * 10^32 <= bound.
LargestBelow(k, bound, lo, hi) ==
    IF lo >= hi THEN lo
    ELSE LET mid == (lo + hi + 1) \div 2
             sq == BigShift(BigMulSmall(BigFromNat(k), mid * mid),
                            ScaleDigits)
         IN  IF BigCmp(sq, bound) <= 0 THEN LargestBelow(k, bound, mid, hi)
             ELSE LargestBelow(k, bound, lo, mid - 1)

\* floor(size * (p cos 0.8pi + q sin 0.8pi) / sqrt(k))
FloorOffset(size, p, q, k) ==
    LET r == Rotated(p, q)
        bound == BigMulSmall(BigMul(r.mag, r.mag), size * size)
        g == LargestBelow(k, bound, 0, size)
        exact == BigCmp(BigShift(BigMulSmall(BigFromNat(k), g * g),
                                 ScaleDigits), bound) = 0
    IN  IF ~r.neg THEN g ELSE IF exact THEN 0 - g ELSE 0 - g - 1

\* int(c + offset) for a whole c and an offset that is not whole.
TruncSum(c, floor_offset) ==
    IF c + floor_offset >= 0 THEN c + floor_offset ELSE c + floor_offset + 1

\* A variant for mutation analysis: a shorter arrowhead.
ArrowSizeShort(width) == width * 3

\* arrow_size = width * 5
ArrowSize(width) == width * ArrowScale

\* (ax, ay) = (int(x2 + arrow_size * cos(angle + sign * 0.8 pi)),
\*             int(y2 + arrow_size * sin(angle + sign * 0.8 pi)));
\* atan2(0, 0) = 0, the direction of (1, 0).
ArrowTip(x2, y2, dx, dy, size, sign) ==
    LET ex == IF dx = 0 /\ dy = 0 THEN 1 ELSE dx
        k == SquaredLength(ex, dy)
    IN  [x |-> TruncSum(x2, FloorOffset(size, ex, 0 - sign * dy, k)),
         y |-> TruncSum(y2, FloorOffset(size, dy, sign * ex, k))]

IsArrow(shape) == shape.type = "arrow"

\* The drawboxes of one shape (lines 229-277).
ShapeFills(shape, idx) ==
    LET x1 == XPixel(shape.x1)
        y1 == YPixel(shape.y1)
        x2 == XPixel(shape.x2)
        y2 == YPixel(shape.y2)
        w  == shape.width
        es == shape.start_time
        ee == shape.end_time
        n  == NumSegments(SquaredLength(x2 - x1, y2 - y1), w)
        a1 == ArrowTip(x2, y2, x2 - x1, y2 - y1, ArrowSize(w), 1)
        a2 == ArrowTip(x2, y2, x2 - x1, y2 - y1, ArrowSize(w), -1)
        main == draw_line_with_boxes(x1, y1, x2, y2, w, n, es, ee, idx, "main")
    IN  IF IsArrow(shape)
        THEN main
             \o draw_line_with_boxes(x2, y2, a1.x, a1.y, w, ArrowSegments,
                                     es, ee, idx, "head1")
             \o draw_line_with_boxes(x2, y2, a2.x, a2.y, w, ArrowSegments,
                                     es, ee, idx, "head2")
        ELSE main

RECURSIVE AllShapeFills(_, _)
AllShapeFills(shapes, idx) ==
    IF idx > Len(shapes) THEN <<>>
    ELSE ShapeFills(shapes[idx], idx) \o AllShapeFills(shapes, idx + 1)

(***************************************************************************)
(* The state of one render request.                                        *)
(***************************************************************************)
VARIABLES
    project,             \* the request body
    pc,                  \* where the request is
    endpoint,            \* "preview" or "export"
    profile,             \* preset and crf handed to render_project
    video_concat_parts,  \* the video segments, in concat order
    max_duration,
    current_time,        \* the video cursor; meaningful once assigned
    cursor_assigned,     \* current_time is a bound local
    unbound_read,        \* current_time was read while unbound
    main_v,
    audio_overlays,
    fills,               \* the drawbox filters, in order of application
    final_audio,
    engine_runs,         \* how many times out.run() was called
    engine_outcome,
    output_file,         \* the engine wrote the output file
    render_result,       \* "path", "none" (None returned) or "raised"
    response             \* what the endpoint answers

vars == <<project, pc, endpoint, profile, video_concat_parts, max_duration,
          current_time, cursor_assigned, unbound_read, main_v,
          audio_overlays, fills, final_audio, engine_runs, engine_outcome,
          output_file, render_result, response>>

renderVars == <<video_concat_parts, max_duration, current_time,
                cursor_assigned, unbound_read, main_v, audio_overlays,
                fills, final_audio, engine_runs, engine_outcome,
                output_file, render_result>>

\* any(len(t.clips) > 0 for t in project.tracks)
HasClips(p) == \E i \in 1..Len(p.tracks) : Len(p.tracks[i].clips) > 0

PreviewProfile == [preset |-> "ultrafast", crf |-> 28]
ExportProfile == [preset |-> "medium", crf |-> 23]
NoProfile == [preset |-> "", crf |-> 0]

\* What the engine can do with the graph: write the file and exit 0, exit
\* non-zero (ffmpeg.Error), fail to start (another exception), or exit 0
\* leaving no file at output_path.
EngineOutcomes == {"ok", "nonzero", "fault", "no_output"}

\* out.run() returns normally: no exception leaves it.
RunReturns(outcome) == outcome \in {"ok", "no_output"}

(***************************************************************************)
(* main.py: the endpoints.                                                 *)
(***************************************************************************)
\* generate_preview, lines 71-73: nothing to render.
PreviewEmpty ==
    /\ pc = "idle"
    /\ ~HasClips(project)
    /\ endpoint' = "preview"
    /\ response' = "empty"
    /\ pc' = "done"
    /\ UNCHANGED <<project, profile, renderVars>>

\* generate_preview, line 75: the call of render_project.
PreviewRender ==
    /\ pc = "idle"
    /\ HasClips(project)
    /\ endpoint' = "preview"
    /\ profile' = PreviewProfile
    /\ pc' = "render"
    /\ UNCHANGED <<project, response, renderVars>>

\* export_video, line 90: the call of render_project, with no check before.
ExportRender ==
    /\ pc = "idle"
    /\ endpoint' = "export"
    /\ profile' = ExportProfile
    /\ pc' = "render"
    /\ UNCHANGED <<project, response, renderVars>>

\* generate_preview, lines 76-82.
PreviewResponse(result) ==
    IF result = "raised" THEN "http500"
    ELSE IF result = "none" THEN "error"
    ELSE "ready"

\* export_video, lines 91-97: the HTTPException raised for a None result is
\* caught by the handler's own except clause and raised again as a 500.
ExportResponse(result) ==
    IF result = "raised" THEN "http500"
    ELSE IF result = "none" THEN "http500"
    ELSE "ready"

PreviewReturn ==
    /\ pc = "returned"
    /\ endpoint = "preview"
    /\ response' = PreviewResponse(render_result)
    /\ pc' = "done"
    /\ UNCHANGED <<project, endpoint, profile, renderVars>>

ExportReturn ==
    /\ pc = "returned"
    /\ endpoint = "export"
    /\ response' = ExportResponse(render_result)
    /\ pc' = "done"
    /\ UNCHANGED <<project, endpoint, profile, renderVars>>

(***************************************************************************)
(* renderer.py: render_project, one action per numbered step.              *)
(***************************************************************************)
\* Lines 33-102.
ProcessVideoTrack ==
    /\ pc = "render"
    /\ LET video_track == FirstVideoTrack(project.tracks)
           enters == EntersVideoBranch(video_track)
           st == IF enters
                 THEN VideoLoop([parts |-> <<>>, current_time |-> 0,
                                 max_duration |-> 0],
                                SortedClips(video_track.clips))
                 ELSE [parts |-> <<>>, current_time |-> 0, max_duration |-> 0]
       IN  /\ video_concat_parts' = st.parts
           /\ current_time' = st.current_time
           /\ cursor_assigned' = CursorInitialised(video_track)
           /\ max_duration' = MaxEnd(st.max_duration, AudioClips(project.tracks))
    /\ pc' = "main_v"
    /\ UNCHANGED <<project, endpoint, profile, unbound_read, main_v,
                   audio_overlays, fills, final_audio, engine_runs,
                   engine_outcome, output_file, render_result, response>>

\* Lines 104-131.  Reading an unbound current_time raises inside the try
\* block, whose except clause returns None.
CreateMainVideo ==
    /\ pc = "main_v"
    /\ IF video_concat_parts # <<>>
       THEN IF cursor_assigned
            THEN /\ video_concat_parts' =
                        PaddedParts(video_concat_parts, current_time, max_duration)
                 /\ main_v' = ConcatStream(video_concat_parts')
                 /\ pc' = "audio"
                 /\ UNCHANGED <<unbound_read, render_result>>
            ELSE /\ unbound_read' = TRUE
                 /\ render_result' = "none"
                 /\ pc' = "returned"
                 /\ UNCHANGED <<video_concat_parts, main_v>>
       ELSE IF max_duration > 0
            THEN /\ main_v' = BlackStream(max_duration)
                 /\ pc' = "audio"
                 /\ UNCHANGED <<video_concat_parts, unbound_read, render_result>>
            ELSE /\ render_result' = "none"
                 /\ pc' = "returned"
                 /\ UNCHANGED <<video_concat_parts, unbound_read, main_v>>
    /\ UNCHANGED <<project, endpoint, profile, max_duration, current_time,
                   cursor_assigned, audio_overlays, fills, final_audio,
                   engine_runs, engine_outcome, output_file, response>>

\* Lines 133-171.
ProcessAudioTracks ==
    /\ pc = "audio"
    /\ audio_overlays' = AudioOverlays(project.tracks)
    /\ pc' = "overlays"
    /\ UNCHANGED <<project, endpoint, profile, video_concat_parts,
                   max_duration, current_time, cursor_assigned, unbound_read,
                   main_v, fills, final_audio, engine_runs, engine_outcome,
                   output_file, render_result, response>>

\* Lines 207-277.
ApplyShapeOverlays ==
    /\ pc = "overlays"
    /\ fills' = AllShapeFills(project.shape_overlays, 1)
    /\ pc' = "mix"
    /\ UNCHANGED <<project, endpoint, profile, video_concat_parts,
                   max_duration, current_time, cursor_assigned, unbound_read,
                   main_v, audio_overlays, final_audio, engine_runs,
                   engine_outcome, output_file, render_result, response>>

\* Lines 279-284.
MixAudio ==
    /\ pc = "mix"
    /\ final_audio' = FinalAudio(audio_overlays)
    /\ pc' = "output"
    /\ UNCHANGED <<project, endpoint, profile, video_concat_parts,
                   max_duration, current_time, cursor_assigned, unbound_read,
                   main_v, audio_overlays, fills, engine_runs,
                   engine_outcome, output_file, render_result, response>>

\* Lines 286-294: the graph is run once; an exception leaves render_project,
\* a normal return yields output_path unchecked.
RunEngine ==
    /\ pc = "output"
    /\ \E outcome \in EngineOutcomes :
          /\ engine_outcome' = outcome
          /\ output_file' = (outcome = "ok")
          /\ render_result' = IF RunReturns(outcome) THEN "path" ELSE "raised"
    /\ engine_runs' = engine_runs + 1
    /\ pc' = "returned"
    /\ UNCHANGED <<project, endpoint, profile, video_concat_parts,
                   max_duration, current_time, cursor_assigned, unbound_read,
                   main_v, audio_overlays, fills, final_audio, response>>

(***************************************************************************)
(* The projects explored.                                                  *)
(***************************************************************************)
ClipLengths == {1, 2}
Speeds == {1, 2, 3}
SourceStarts == {0, 1, 5}
Volumes == {1, 2}

Windows ==
    {w \in (0..MaxTime) \X (0..MaxTime) : (w[2] - w[1]) \in ClipLengths}

SeqsUpTo(S, n) == UNION {[1..k -> S] : k \in 0..n}

\* One video track of up to MaxClips clips, in any order, overlapping or
\* not, present or missing; with or without an audio clip that outlasts it.
VideoInputs == Windows \X {OkPath, MissingPath}

VideoClips(descs) ==
    [i \in 1..Len(descs) |->
        Clip(i, descs[i][2], descs[i][1][1], descs[i][1][2], 0, 1, 1)]

AudioTails ==
    {<<>>} \cup
    {<<Track("audio", <<Clip(11, OkPath, 0, MaxTime + k, 0, 1, 1)>>)>> :
        k \in {1, 2}}

VideoProjects ==
    {Project(<<Track("video", VideoClips(d))>> \o t, <<>>) :
        d \in SeqsUpTo(VideoInputs, MaxClips), t \in AudioTails}

\* No video track; up to MaxAudioClips clips, the first on an audio track,
\* the others on an audio-from-video track; clip i lasts i ticks.
AudioInputs == (0..(MaxTime - 1)) \X {OkPath, SilentPath, MissingPath}

AudioClipsOf(descs) ==
    [i \in 1..Len(descs) |->
        Clip(10 + i, descs[i][2], descs[i][1], descs[i][1] + i, 0, 1, 1)]

FirstOf(s) == IF s = <<>> THEN <<>> ELSE <<Head(s)>>
RestOf(s) == IF s = <<>> THEN <<>> ELSE Tail(s)

AudioProjects ==
    {Project(<<Track("audio", FirstOf(AudioClipsOf(d))),
               Track("av", RestOf(AudioClipsOf(d)))>>, <<>>) :
        d \in SeqsUpTo(AudioInputs, MaxAudioClips)}

\* A video clip and its linked audio twin, trimmed and sped up.
SpeedProjects ==
    {Project(<<Track("video",
                     <<Clip(1, OkPath, w[1], w[2], ss, sp, 1)>>),
               Track("av",
                     <<Clip(11, OkPath, w[1], w[2], ss, sp, vol)>>)>>, <<>>) :
        w \in Windows, ss \in SourceStarts, sp \in Speeds, vol \in Volumes}

\* One shape over an audio-only project.
XPercents == {0, 5, 10, 18}
YPercents == {92, 95, 100}
Widths == {3, 5, 7}

Shapes ==
    {ShapeOverlay(t, 1, 2, x1, y1, x2, y2, w) :
        t \in {"line", "arrow"}, x1 \in XPercents, y1 \in YPercents,
        x2 \in XPercents, y2 \in YPercents, w \in Widths}

OneAudioClip == <<Track("audio", <<Clip(11, OkPath, 0, 2, 0, 1, 1)>>)>>

ShapeProjects == {Project(OneAudioClip, <<sh>>) : sh \in Shapes}

\* Named scenarios; s seconds are s * TicksPerSecond ticks.
Seconds(s) == s * TicksPerSecond

NoTracks == Project(<<>>, <<>>)

GapScenario ==
    Project(<<Track("video",
                    <<Clip(1, OkPath, Seconds(0), Seconds(5), 0, 1, 1),
                      Clip(2, OkPath, Seconds(8), Seconds(12), 0, 1, 1)>>)>>,
            <<>>)

AudioOnlyScenario ==
    Project(<<Track("audio",
                    <<Clip(11, OkPath, Seconds(2), Seconds(6), 0, 1, 2)>>)>>,
            <<>>)

\* The clips sit on a second video track, which render_project ignores.
SecondVideoTrack ==
    Project(<<Track("video", <<>>),
              Track("video", <<Clip(1, OkPath, 0, 2, 0, 1, 1)>>)>>, <<>>)

\* The audio track listed before the video track; a line and an arrow
\* with different windows.
TwoShapes ==
    Project(<<Track("audio", <<Clip(11, OkPath, 1, 3, 0, 1, 1)>>),
              Track("video", <<Clip(1, OkPath, 0, 2, 0, 1, 1)>>)>>,
            <<ShapeOverlay("arrow", 0, 1, 0, 100, 10, 92, 3),
              ShapeOverlay("line", 1, 3, 0, 92, 5, 95, 5)>>)

\* A clip lying strictly inside another one's window.
ContainedClip ==
    Project(<<Track("video",
                    <<Clip(1, OkPath, 0, 4, 0, 1, 1),
                      Clip(2, OkPath, 1, 2, 0, 1, 1)>>)>>, <<>>)

\* Shapes on which the doubles the code computes fall just short of a
\* whole number: sample 110 of 150 of the first line, an arrowhead tip of
\* the second shape, the segment count of the third; the fourth has an
\* arrowhead tip just above a whole number.
RoundedShapes ==
    Project(OneAudioClip,
            <<ShapeOverlay("line", 1, 2, 0, 50, 18, 40, 3),
              ShapeOverlay("arrow", 1, 2, 50, 0, 0, 65, 1),
              ShapeOverlay("line", 1, 2, 0, 50, 35, 50, 7),
              ShapeOverlay("arrow", 1, 2, 4, 28, 28, 59, 7)>>)

Scenarios ==
    {NoTracks, GapScenario, AudioOnlyScenario, SecondVideoTrack, TwoShapes,
     ContainedClip, RoundedShapes}

Projects ==
    VideoProjects \cup AudioProjects \cup SpeedProjects \cup ShapeProjects
        \cup Scenarios

Init ==
    /\ project \in Projects
    /\ pc = "idle"
    /\ endpoint = "none"
    /\ profile = NoProfile
    /\ video_concat_parts = <<>>
    /\ max_duration = 0
    /\ current_time = 0
    /\ cursor_assigned = FALSE
    /\ unbound_read = FALSE
    /\ main_v = NoStream
    /\ audio_overlays = <<>>
    /\ fills = <<>>
    /\ final_audio = FinalAudio(<<>>)
    /\ engine_runs = 0
    /\ engine_outcome = "none"
    /\ output_file = FALSE
    /\ render_result = "pending"
    /\ response = "none"

Next ==
    \/ PreviewEmpty
    \/ PreviewRender
    \/ ExportRender
    \/ ProcessVideoTrack
    \/ CreateMainVideo
    \/ ProcessAudioTracks
    \/ ApplyShapeOverlays
    \/ MixAudio
    \/ RunEngine
    \/ PreviewReturn
    \/ ExportReturn

Spec == Init /\ [][Next]_vars

(***************************************************************************)
(* Vocabulary of the properties.                                           *)
(***************************************************************************)
AllClips(p) == Flatten([i \in 1..Len(p.tracks) |-> p.tracks[i].clips])

VideoTrackCount(p) ==
    Cardinality({i \in 1..Len(p.tracks) : p.tracks[i].type = "video"})

\* All times non-negative, every clip ends after it starts, at most one
\* video track; windows may overlap.
WellFormed(p) ==
    /\ VideoTrackCount(p) <= 1
    /\ \A i \in 1..Len(AllClips(p)) :
          LET c == AllClips(p)[i]
          IN  c.start_time >= 0 /\ c.end_time > c.start_time
              /\ c.source_start >= 0

\* The maximum end_time over every clip of every track.
EffectiveDuration(p) == MaxEnd(0, AllClips(p))

VideoClipsOf(p) == FirstVideoTrack(p.tracks).clips

Compiled == pc \notin {"idle", "render"}
VideoBuilt == pc \in {"audio", "overlays", "mix", "output"}
AudioBuilt == pc \in {"overlays", "mix", "output"}
Drawn == pc \in {"mix", "output"}
Mixed == pc = "output"

\* The position in the video chain of the segment of clip `id`, 0 if none.
SegmentIndex(parts, id) ==
    IF \E i \in 1..Len(parts) : parts[i].kind = "clip" /\ parts[i].clip = id
    THEN CHOOSE i \in 1..Len(parts) :
            parts[i].kind = "clip" /\ parts[i].clip = id
    ELSE 0

IsSegmentOf(parts, i, c) ==
    /\ i <= Len(parts)
    /\ parts[i].kind = "clip"
    /\ parts[i].clip = c.id

IsFiller(parts, i) == i <= Len(parts) /\ parts[i].kind = "filler"

(***************************************************************************)
(* C1.  For every well-formed project with at least one clip, the          *)
(* durations of the video segments that are concatenated (clip segments    *)
(* and black fillers) sum to exactly the maximum end_time over every clip  *)
(* of every track.  The code does not keep this: see C1_Overlap below.     *)
(***************************************************************************)
C1_DurationIsMaxEnd ==
    (VideoBuilt /\ WellFormed(project) /\ HasClips(project))
        => main_v.dur = EffectiveDuration(project)

\* Two present clips [0,2) and [1,3) are concatenated to 4 ticks, not 3.
C1_Overlap ==
    ~(/\ VideoBuilt
      /\ WellFormed(project)
      /\ \A i \in 1..Len(AllClips(project)) :
            FileExists(AllClips(project)[i].source_path)
      /\ main_v.kind = "concat"
      /\ main_v.dur > EffectiveDuration(project))

(***************************************************************************)
(* C2.  Between two clips that are consecutive in start_time order on the  *)
(* video track and whose segments are emitted, exactly one filler is       *)
(* emitted when the gap g = next.start_time - previous.end_time exceeds    *)
(* 0.01 s, it lasts exactly g and sits between the two clips' segments;    *)
(* when the clips abut, overlap or are at most 0.01 s apart, the next      *)
(* clip's segment follows the previous one's directly.  When only the      *)
(* earlier clip is emitted, a gap above the threshold is still filled by   *)
(* one filler of g right after its segment.                                *)
(***************************************************************************)
C2_GapFillers ==
    Compiled =>
        LET sorted == SortedClips(VideoClipsOf(project))
            parts == video_concat_parts
        IN  \A k \in 1..(Len(sorted) - 1) :
              LET prev == sorted[k]
                  next == sorted[k + 1]
                  g == next.start_time - prev.end_time
                  i == SegmentIndex(parts, prev.id)
              IN  FileExists(prev.source_path) =>
                    /\ i > 0
                    /\ (g * 100 > TicksPerSecond) =>
                          /\ IsFiller(parts, i + 1)
                          /\ parts[i + 1].dur = g
                          /\ FileExists(next.source_path) =>
                                IsSegmentOf(parts, i + 2, next)
                    /\ (g * 100 <= TicksPerSecond
                          /\ FileExists(next.source_path)) =>
                          IsSegmentOf(parts, i + 1, next)

\* The 5 s clip, the 3 s filler and the 4 s clip of clips [0,5) and [8,12).
C2_Witness ==
    /\ project = GapScenario
    /\ pc = "main_v"
    /\ Len(video_concat_parts) = 3
    /\ IsSegmentOf(video_concat_parts, 1, GapScenario.tracks[1].clips[1])
    /\ video_concat_parts[1].dur = Seconds(5)
    /\ video_concat_parts[2] = BlackFiller(Seconds(3))
    /\ IsSegmentOf(video_concat_parts, 3, GapScenario.tracks[1].clips[2])
    /\ video_concat_parts[3].dur = Seconds(4)

\* Two present clips one tick (under 0.01 s) apart: no filler between them.
C2_WitnessSmallGap ==
    /\ pc = "main_v"
    /\ Len(video_concat_parts) = 2
    /\ video_concat_parts[1].kind = "clip"
    /\ video_concat_parts[2].kind = "clip"
    /\ \E k \in 1..(Len(VideoClipsOf(project)) - 1) :
          SortedClips(VideoClipsOf(project))[k + 1].start_time
            - SortedClips(VideoClipsOf(project))[k].end_time = 1

(***************************************************************************)
(* C3.  For every project whose tracks hold no clip at all, a render       *)
(* request under either profile ends in the "empty" outcome, the engine    *)
(* is never invoked and no output file is written.  /export does not keep  *)
(* this: it answers with a 500.                                            *)
(***************************************************************************)
C3_EmptyProjectIsEmpty ==
    (pc = "done" /\ ~HasClips(project)) =>
        /\ response = "empty"
        /\ engine_runs = 0
        /\ ~output_file

(***************************************************************************)
(* C4.  If the media engine fails (non-zero completion, a thrown fault or  *)
(* the expected output file missing after the run), the request ends in a  *)
(* failure outcome, never in "ready", and the engine is invoked at most    *)
(* once.  The code never looks for the output file.                        *)
(***************************************************************************)
EngineFailed == engine_outcome \in {"nonzero", "fault", "no_output"}

C4_EngineFailureReported ==
    /\ engine_runs <= 1
    /\ (pc = "done" /\ EngineFailed) => response \in {"error", "http500"}

(***************************************************************************)
(* C5.  Mixing policy over the processed audio segments: none gives no     *)
(* audio stream; exactly one is the audio output itself, with no mix and   *)
(* its length unchanged; two or more are combined by one additive mix      *)
(* over all of them, as long as its longest input.                         *)
(* As claimed, the mix would therefore end at the latest absolute          *)
(* end_time among the mixed clips (C5_MixEndsAtLatestEnd); the code delays *)
(* each segment by int(start_time * 1000) whole milliseconds, so the mix   *)
(* ends at the latest of trunc(start_time * 1000) ms + (end_time -         *)
(* start_time), which is at most the latest end_time and less than 1 ms    *)
(* before it (C5_MixingPolicy).                                            *)
(***************************************************************************)
MixedClips(p) == SelectSeq(AudioClips(p.tracks), AudioClipKept)

\* trunc(start_time * 1000) ms + (end_time - start_time), in 1/16 ms.
PlacedEnd(c) ==
    ((c.start_time * 1000) \div TicksPerSecond) * UnitsPerMs
        + (c.end_time - c.start_time) * UnitsPerTick

RECURSIVE LatestPlacedEnd(_)
LatestPlacedEnd(clips) ==
    IF clips = <<>> THEN 0
    ELSE Max(PlacedEnd(Head(clips)), LatestPlacedEnd(Tail(clips)))

LatestEnd(clips) == MaxEnd(0, clips) * UnitsPerTick

C5_Policy ==
    LET clips == MixedClips(project)
    IN  /\ Len(audio_overlays) = Len(clips)
        /\ Len(clips) = 0 => final_audio.kind = "none"
        /\ Len(clips) = 1 =>
              /\ final_audio.kind = "single"
              /\ final_audio.first = clips[1].id
              /\ final_audio.length = SegmentLength(audio_overlays[1])
        /\ Len(clips) >= 2 =>
              /\ final_audio.kind = "amix"
              /\ final_audio.inputs = Len(clips)
              /\ \A i \in 1..Len(audio_overlays) :
                    final_audio.length >= SegmentLength(audio_overlays[i])
              /\ \E i \in 1..Len(audio_overlays) :
                    final_audio.length = SegmentLength(audio_overlays[i])

C5_MixingPolicy ==
    Mixed =>
        /\ C5_Policy
        /\ Len(MixedClips(project)) >= 2 =>
              /\ final_audio.length = LatestPlacedEnd(MixedClips(project))
              /\ final_audio.length <= LatestEnd(MixedClips(project))
              /\ final_audio.length > LatestEnd(MixedClips(project)) - UnitsPerMs

\* The claim as made: the mix ends exactly at the latest end_time.
C5_MixEndsAtLatestEnd ==
    Mixed =>
        /\ C5_Policy
        /\ Len(MixedClips(project)) >= 2 =>
              final_audio.length = LatestEnd(MixedClips(project))

\* Two clips are mixed, of different lengths, the mix ending within the
\* millisecond before the later end.
C5_Witness ==
    /\ Mixed
    /\ final_audio.kind = "amix"
    /\ final_audio.inputs = 2
    /\ SegmentLength(audio_overlays[1]) # SegmentLength(audio_overlays[2])
    /\ final_audio.length < LatestEnd(MixedClips(project))

(***************************************************************************)
(* C6.  Per-clip problems never abort a render: a clip whose source file   *)
(* is missing (video track or audio-bearing track) or whose source has no  *)
(* audio stream (audio-bearing track) contributes no segment, every other  *)
(* clip contributes exactly one, and render_project goes on to run the     *)
(* engine instead of returning a failure.                                  *)
(***************************************************************************)
VideoSegmentsOf(c) ==
    Cardinality({i \in 1..Len(video_concat_parts) :
                    IsSegmentOf(video_concat_parts, i, c)})

AudioSegmentsOf(c) ==
    Cardinality({i \in 1..Len(audio_overlays) : audio_overlays[i].clip = c.id})

ProblemVideoClip(c) == ~FileExists(c.source_path)

ProblemAudioClip(c) ==
    ~FileExists(c.source_path) \/ ~has_audio_stream(c.source_path)

HasProblemClip(p) ==
    \/ \E i \in 1..Len(VideoClipsOf(p)) : ProblemVideoClip(VideoClipsOf(p)[i])
    \/ \E i \in 1..Len(AudioClips(p.tracks)) :
          ProblemAudioClip(AudioClips(p.tracks)[i])

C6_ProblemClipsAreSkipped ==
    HasProblemClip(project) =>
        /\ render_result # "none"
        /\ pc \in {"returned", "done"} => engine_runs = 1
        /\ Compiled =>
              \A i \in 1..Len(VideoClipsOf(project)) :
                 LET c == VideoClipsOf(project)[i]
                 IN  VideoSegmentsOf(c) =
                        IF ProblemVideoClip(c) THEN 0 ELSE 1
        /\ (AudioBuilt \/ pc \in {"returned", "done"}) =>
              \A i \in 1..Len(AudioClips(project.tracks)) :
                 LET c == AudioClips(project.tracks)[i]
                 IN  AudioSegmentsOf(c) =
                        IF ProblemAudioClip(c) THEN 0 ELSE 1

\* A silent clip was skipped, another clip was processed, the engine ran.
C6_Witness ==
    /\ pc = "returned"
    /\ engine_runs = 1
    /\ Len(audio_overlays) = 1
    /\ \E i \in 1..Len(AudioClips(project.tracks)) :
          LET c == AudioClips(project.tracks)[i]
          IN  FileExists(c.source_path) /\ ~has_audio_stream(c.source_path)

\* A missing video clip was skipped, the other one emitted, the engine ran.
C6_WitnessVideo ==
    /\ pc = "returned"
    /\ engine_runs = 1
    /\ Len(VideoClipsOf(project)) = 2
    /\ \E i \in 1..2 : ProblemVideoClip(VideoClipsOf(project)[i])
    /\ \E i \in 1..2 : VideoSegmentsOf(VideoClipsOf(project)[i]) = 1

(***************************************************************************)
(* C7.  Every emitted clip segment, video or audio, consumes the source    *)
(* range that starts at the clip's source_start and is (end_time -         *)
(* start_time) x speed long; the video segment, retimed by 1 / speed,      *)
(* occupies exactly end_time - start_time of the timeline.                 *)
(***************************************************************************)
C7_SourceRange ==
    /\ \A i \in 1..Len(VideoClipsOf(project)) :
          LET c == VideoClipsOf(project)[i]
              k == SegmentIndex(video_concat_parts, c.id)
          IN  k > 0 =>
                /\ video_concat_parts[k].trim_start = c.source_start
                /\ video_concat_parts[k].trim_dur =
                      (c.end_time - c.start_time) * c.speed
                /\ video_concat_parts[k].dur = c.end_time - c.start_time
    /\ \A i \in 1..Len(AudioClips(project.tracks)) :
          LET c == AudioClips(project.tracks)[i]
          IN  \A k \in 1..Len(audio_overlays) :
                audio_overlays[k].clip = c.id =>
                   /\ audio_overlays[k].trim_start = c.source_start
                   /\ audio_overlays[k].trim_dur =
                         (c.end_time - c.start_time) * c.speed

\* A clip of 2 ticks at speed 2 from source offset 5: 4 ticks of source.
C7_Witness ==
    /\ AudioBuilt
    /\ Len(video_concat_parts) >= 1
    /\ Len(audio_overlays) = 1
    /\ \E k \in 1..Len(video_concat_parts) :
          /\ video_concat_parts[k].kind = "clip"
          /\ video_concat_parts[k].speed = 2
          /\ video_concat_parts[k].trim_start = 5
          /\ video_concat_parts[k].trim_dur = 4
          /\ video_concat_parts[k].dur = 2
    /\ audio_overlays[1].atempo = 2
    /\ audio_overlays[1].trim_start = 5
    /\ audio_overlays[1].trim_dur = 4

(***************************************************************************)
(* C8.  A shape of kind "line" emits only its main rasterized segment; a   *)
(* shape of kind "arrow" emits after it exactly two more segments, each    *)
(* of 8 samples (9 fills) starting at the terminal endpoint (x2, y2) and   *)
(* width x 5 long, up to the truncation of its far end to whole pixels.    *)
(* Every fill of a shape carries the shape's window as its enable          *)
(* condition and has non-negative x and y.                                 *)
(***************************************************************************)
FillsOf(idx, part) ==
    LET Is(f) == f.shape = idx /\ f.part = part
    IN  SelectSeq(fills, Is)

FillIndices(idx, part) ==
    {k \in 1..Len(fills) : fills[k].shape = idx /\ fills[k].part = part}

\* The fills of one arrowhead stroke, drawn from (x2, y2) with `width`.
IsArrowStroke(head, x2, y2, width) ==
    /\ Len(head) = 9
    /\ \A k \in 1..Len(head) : head[k].i = k - 1
    /\ head[1].x = Max(0, x2 - width \div 2)
    /\ head[1].y = Max(0, y2 - width \div 2)
    /\ (head[1].x > 0 /\ head[1].y > 0 /\ head[9].x > 0 /\ head[9].y > 0) =>
          LET d2 == (head[9].x - head[1].x) * (head[9].x - head[1].x)
                    + (head[9].y - head[1].y) * (head[9].y - head[1].y)
          IN  /\ d2 > (5 * width - 2) * (5 * width - 2)
              /\ d2 < (5 * width + 2) * (5 * width + 2)

C8_ShapeFills ==
    Drawn =>
        /\ \A k \in 1..Len(fills) :
              /\ fills[k].shape \in 1..Len(project.shape_overlays)
              /\ fills[k].part \in {"main", "head1", "head2"}
              /\ fills[k].x >= 0
              /\ fills[k].y >= 0
              /\ fills[k].enable_start =
                    project.shape_overlays[fills[k].shape].start_time
              /\ fills[k].enable_end =
                    project.shape_overlays[fills[k].shape].end_time
        /\ \A idx \in 1..Len(project.shape_overlays) :
              LET sh == project.shape_overlays[idx]
                  x2 == (1920 * sh.x2) \div 100
                  y2 == (108000 - 1080 * sh.y2) \div 100
              IN  /\ FillsOf(idx, "main") # <<>>
                  /\ sh.type = "line" =>
                        /\ FillsOf(idx, "head1") = <<>>
                        /\ FillsOf(idx, "head2") = <<>>
                  /\ sh.type = "arrow" =>
                        /\ IsArrowStroke(FillsOf(idx, "head1"), x2, y2, sh.width)
                        /\ IsArrowStroke(FillsOf(idx, "head2"), x2, y2, sh.width)
                        /\ \A a \in FillIndices(idx, "main"),
                              b \in FillIndices(idx, "head1"),
                              c \in FillIndices(idx, "head2") : a < b /\ b < c

\* An arrow and a line with different windows, both drawn: 18 arrowhead
\* fills for the arrow, none for the line.
C8_Witness ==
    /\ Drawn
    /\ project = TwoShapes
    /\ Len(FillsOf(1, "head1")) + Len(FillsOf(1, "head2")) = 18
    /\ FillsOf(2, "main") # <<>>
    /\ FillsOf(2, "head1") = <<>>
    /\ FillsOf(1, "head1")[9].x > 0
    /\ FillsOf(1, "head1")[9].y > 0
    /\ fills[1].enable_end # fills[Len(fills)].enable_end

(***************************************************************************)
(* C9.  For a shape of pixel length L and stroke width w the main line is  *)
(* rasterized with N = max(10, round(L / (w x 0.8))) segments, rounding    *)
(* to nearest, and exactly N + 1 fills, the first centred on endpoint 1    *)
(* and the last on endpoint 2.  The code truncates the quotient instead.   *)
(***************************************************************************)
\* n = max(10, round(sqrt(s2) / (0.8 w))), a tie rounding either way:
\* |sqrt(s2) * 5 / (4 w) - n| <= 1/2, squared and cleared of fractions.
IsRoundedCount(n, s2, w) ==
    IF n = 10
    THEN 100 * s2 <= 21 * 21 * 16 * w * w
    ELSE /\ n > 10
         /\ (2 * n - 1) * (2 * n - 1) * 16 * w * w <= 100 * s2
         /\ 100 * s2 <= (2 * n + 1) * (2 * n + 1) * 16 * w * w

C9_RoundedSegmentCount ==
    Drawn =>
        \A idx \in 1..Len(project.shape_overlays) :
           LET sh == project.shape_overlays[idx]
               x1 == (1920 * sh.x1) \div 100
               y1 == (108000 - 1080 * sh.y1) \div 100
               x2 == (1920 * sh.x2) \div 100
               y2 == (108000 - 1080 * sh.y2) \div 100
               main == FillsOf(idx, "main")
               half == sh.width \div 2
           IN  /\ IsRoundedCount(Len(main) - 1,
                                 (x2 - x1) * (x2 - x1) + (y2 - y1) * (y2 - y1),
                                 sh.width)
               /\ main[1].x = Max(0, x1 - half)
               /\ main[1].y = Max(0, y1 - half)
               /\ main[Len(main)].x = Max(0, x2 - half)
               /\ main[Len(main)].y = Max(0, y2 - half)

(***************************************************************************)
(* C10.  The video cursor current_time is assigned before the padding      *)
(* step reads it: the padding step is reached only with a non-empty video  *)
(* chain, which only the branch that initialises the cursor builds; a      *)
(* project with no video clips but an audio clip takes the other branch,   *)
(* a single untrimmed black filler of the full effective duration, and     *)
(* never reads the cursor.                                                 *)
(***************************************************************************)
C10_CursorAssignedBeforeRead ==
    /\ ~unbound_read
    /\ (pc = "main_v" /\ video_concat_parts # <<>>) => cursor_assigned
    /\ (Compiled /\ pc # "main_v" /\ main_v.kind = "concat") =>
          /\ cursor_assigned
          /\ video_concat_parts # <<>>
    /\ (VideoBuilt /\ VideoClipsOf(project) = <<>>
          /\ AudioClips(project.tracks) # <<>>) =>
          /\ main_v = [kind |-> "black", dur |-> EffectiveDuration(project)]
          /\ video_concat_parts = <<>>
          /\ ~cursor_assigned

\* The padding step ran on a chain holding only a filler (the one video
\* clip is missing) and read the cursor, still at its initial value.
C10_Witness ==
    /\ pc = "audio"
    /\ main_v.kind = "concat"
    /\ cursor_assigned
    /\ current_time = 0
    /\ Len(video_concat_parts) = 2
    /\ video_concat_parts[1].kind = "filler"
    /\ video_concat_parts[2].kind = "filler"

\* The audio-only scenario: one black filler of 6 s, no cursor.
C10_WitnessAudioOnly ==
    /\ pc = "audio"
    /\ project = AudioOnlyScenario
    /\ main_v = BlackStream(Seconds(6))
    /\ ~cursor_assigned
====
